---- MODULE Spec2Model ----
(***************************************************************************)
(* doublecross: a bi-directional channel made of two crossbeam channels    *)
(* cross-wired into two BiChannel endpoints (src/src/lib.rs).              *)
(*                                                                         *)
(* The two underlying channels are numbered 1 and 2 as in `bounded`:       *)
(* (tx1, rx1) and (tx2, rx2).  One thread drives each endpoint; pc gives   *)
(* the call that thread is currently blocked in.                           *)
(***************************************************************************)
EXTENDS Integers, Sequences, FiniteSets

\* ---------------------------------------------------------------- bounds
\* The largest capacity passed to bounded.
MaxCap == 1
\* The number of calls (send, recv, select) each endpoint's thread makes.
MaxCalls == 3
\* The number of calls each thread makes in the runs whose selects carry a timer.
TimedCalls == 2
\* The number of calls each thread makes in the runs under a fair scheduler.
FairCalls == 2

\* ---------------------------------------------------------------- values
Sides == {"left", "right"}
Chans == {1, 2}

\* T: what left receives and right sends; U: what right receives and left sends.
T == {"t0"}
U == {"u0"}

\* What recv returns for an exhausted channel (Option::None).
None == [val |-> "None", n |-> 0]
NoMsg == [val |-> "none", n |-> 0]

Peer(e) == IF e = "left" THEN "right" ELSE "left"

Last(q) == q[Len(q)]

\* The message type an endpoint sends: left is BiChannel<T, U>, right is BiChannel<U, T>.
SendType(e) == IF e = "left" THEN U ELSE T

RecvType(e) == IF e = "left" THEN T ELSE U

\* A message is its payload together with its ordinal among the sends of its endpoint.
Msg(e) == [val : SendType(e), n : 1..MaxCalls]

VARIABLES
    ctor,       \* the constructor call that made the pair, and its argument
    flavor,     \* flavor[i]: kind and capacity of channel i, fixed at construction
    ep,         \* ep[e]: the BiChannel struct of endpoint e: its rx and tx channel
    buf,        \* buf[i]: messages queued in channel i
    senders,    \* senders[i]: live Sender handles of channel i
    receivers,  \* receivers[i]: live Receiver handles of channel i
    pc,         \* pc[e]: "idle", "send", "recv", "select" or "dropped"
    arg,        \* arg[e]: the message of the blocked send or select-send of e
    selOps,     \* selOps[e]: the operands of the blocked select of e
    sentLog,    \* sentLog[e]: messages whose send on e has returned
    recvLog,    \* recvLog[e]: what the recv calls on e have returned
    selLog,     \* selLog[e]: the branch each completed select of e went through
    blockedLog, \* blockedLog[e]: ordinals of the sends of e that had to wait
    lost,       \* messages destroyed with their channel
    leftover,   \* leftover[e]: what e had sent and was still queued when e was dropped
    timer,      \* timer[e]: the channel::after operand of the blocked select of e:
                \* "none", "armed" (deadline ahead) or "expired" (deadline passed)
    budget      \* the number of calls each endpoint's thread makes in this run

vars == <<ctor, flavor, ep, buf, senders, receivers, pc, arg, selOps,
          sentLog, recvLog, selLog, blockedLog, lost, leftover, timer, budget>>

\* ---------------------------------------------------------- construction
\* Faulty variant of channel_bounded: a zero capacity is rounded up to one slot.
channel_bounded_min1(cap) == [kind |-> "bounded", cap |-> IF cap = 0 THEN 1 ELSE cap]

channel_bounded(cap) == [kind |-> "bounded", cap |-> cap]

\* Faulty variant of channel_unbounded: a channel of one slot.
channel_unbounded_one == [kind |-> "bounded", cap |-> 1]

channel_unbounded == [kind |-> "unbounded", cap |-> 0]

BiChannel_new(tx, rx) == [rx |-> rx, tx |-> tx]

\* Faulty variant of Push: the new message jumps the queue.
Push_front(q, m) == <<m>> \o q

\* Faulty variant of Push: a message sent into a busy queue is dropped.
Push_lossy(q, m) == IF q = <<>> THEN <<m>> ELSE q

\* The queue discipline of a channel: send appends, recv takes the head.
Push(q, m) == Append(q, m)

Pop(q) == [msg |-> Head(q), rest |-> Tail(q)]

\* Faulty variant of bounded: each endpoint gets both ends of one channel.
bounded_miswired(cap) ==
    [flavor |-> [i \in Chans |-> channel_bounded(cap)],
     left |-> BiChannel_new(1, 1),
     right |-> BiChannel_new(2, 2)]

\* Faulty variant of bounded: both endpoints are built on one shared channel.
bounded_shared(cap) ==
    [flavor |-> [i \in Chans |-> channel_bounded(cap)],
     left |-> BiChannel_new(1, 1),
     right |-> BiChannel_new(1, 1)]

\* Faulty variant of bounded: the second channel is made one slot larger.
bounded_lopsided(cap) ==
    [flavor |-> [i \in Chans |-> channel_bounded(IF i = 1 THEN cap ELSE cap + 1)],
     left |-> BiChannel_new(1, 2),
     right |-> BiChannel_new(2, 1)]

bounded(cap) ==
    [flavor |-> [i \in Chans |-> channel_bounded(cap)],
     left |-> BiChannel_new(1, 2),
     right |-> BiChannel_new(2, 1)]

\* Faulty variant of unbounded: each endpoint gets both ends of one channel.
unbounded_miswired ==
    [flavor |-> [i \in Chans |-> channel_unbounded],
     left |-> BiChannel_new(1, 1),
     right |-> BiChannel_new(2, 2)]

unbounded ==
    [flavor |-> [i \in Chans |-> channel_unbounded],
     left |-> BiChannel_new(1, 2),
     right |-> BiChannel_new(2, 1)]

\* The constructor calls: bounded(0), .., bounded(MaxCap) and unbounded().
Calls == {[fn |-> "bounded", cap |-> c] : c \in 0..MaxCap}
             \cup {[fn |-> "unbounded", cap |-> 0]}

Construct(call) == IF call.fn = "bounded" THEN bounded(call.cap) ELSE unbounded

\* The state right after the constructor call, one of `calls`, has returned,
\* in a run in which each thread makes n calls.
Constructed(calls, n) ==
    \E call \in calls : \E p \in {Construct(call)} :
        /\ timer = [e \in Sides |-> "none"]
        /\ budget = n
        /\ ctor = call
        /\ flavor = p.flavor
        /\ ep = [e \in Sides |-> IF e = "left" THEN p.left ELSE p.right]
        /\ buf = [i \in Chans |-> <<>>]
        /\ senders = [i \in Chans |-> 1]
        /\ receivers = [i \in Chans |-> 1]
        /\ pc = [e \in Sides |-> "idle"]
        /\ arg = [e \in Sides |-> NoMsg]
        /\ selOps = [e \in Sides |-> {}]
        /\ sentLog = [e \in Sides |-> <<>>]
        /\ recvLog = [e \in Sides |-> <<>>]
        /\ selLog = [e \in Sides |-> <<>>]
        /\ blockedLog = [e \in Sides |-> {}]
        /\ lost = {}
        /\ leftover = [e \in Sides |-> <<>>]

Init == Constructed(Calls, MaxCalls)

\* The select calls of e that came back through their timer operand.
Timeouts(e) == Cardinality({k \in 1..Len(selLog[e]) : selLog[e][k].op = "timeout"})

\* The thread of e is between calls and has calls left to make.
CanCall(e) ==
    /\ pc[e] = "idle"
    /\ Len(sentLog[e]) + Len(recvLog[e]) + Timeouts(e) < budget

\* ------------------------------------------------------ selection operands
\* Faulty variant of as_recv_argument: the recv operand is taken from the tx side.
as_recv_argument_tx(e) == ep[e].tx

as_recv_argument(e) == ep[e].rx

\* Faulty variant of as_send_argument: the send operand is taken from the rx side.
as_send_argument_rx(e) == ep[e].rx

as_send_argument(e) == ep[e].tx

\* ------------------------------------------------- the underlying channel
IsZero(i) == flavor[i].kind = "bounded" /\ flavor[i].cap = 0

\* Faulty variant of HasRoom: a full channel makes room for a sender that waits.
HasRoom_elastic(i) ==
    \/ flavor[i].kind = "unbounded"
    \/ Len(buf[i]) < flavor[i].cap
    \/ \E s \in Sides : pc[s] = "send" /\ ep[s].tx = i /\ flavor[i].cap > 0

HasRoom(i) ==
    \/ flavor[i].kind = "unbounded"
    \/ /\ flavor[i].kind = "bounded"
       /\ Len(buf[i]) < flavor[i].cap

\* The threads blocked receiving from channel i, in recv or in a select.
WaitingRecv(i) ==
    {r \in Sides : \/ pc[r] = "recv" /\ ep[r].rx = i
                   \/ pc[r] = "select" /\ "recv" \in selOps[r]
                                       /\ as_recv_argument(r) = i}

\* The threads blocked sending into channel i, in send or in a select.
WaitingSend(i) ==
    {s \in Sides : \/ pc[s] = "send" /\ ep[s].tx = i
                   \/ pc[s] = "select" /\ "send" \in selOps[s]
                                       /\ as_send_argument(s) = i}

\* A send by e into channel i would not block. Sender::send returns () and has
\* no failure outcome: a channel whose receiver is gone still takes messages
\* while it has room, and a send into a full or zero-capacity channel parks.
SendReady(e, i) ==
    IF IsZero(i) THEN WaitingRecv(i) \ {e} # {} ELSE HasRoom(i)

\* Faulty variant of RecvReady: the receive never waits (a try_recv).
RecvReady_nonblocking(e, i) == TRUE

\* Faulty variant of RecvReady: the end of the channel does not wake a receiver.
RecvReady_open_only(e, i) ==
    \/ buf[i] # <<>>
    \/ IsZero(i) /\ WaitingSend(i) \ {e} # {}

\* A receive by e from channel i would not block.
RecvReady(e, i) ==
    \/ buf[i] # <<>>
    \/ IsZero(i) /\ WaitingSend(i) \ {e} # {}
    \/ senders[i] = 0

\* ------------------------------------------------ completing an operation
\* selLog after `e` finished a call (a select when viaSelect) through branch op
\* with result res, and a blocked counterpart `r` (or e itself when there is
\* none) finished through branch rop with result rres.
Logged(e, viaSelect, op, res, r, rop, rres) ==
    [x \in Sides |->
        IF x = e /\ viaSelect
        THEN Append(selLog[x], [op |-> op, res |-> res])
        ELSE IF x = r /\ x # e /\ pc[x] = "select"
        THEN Append(selLog[x], [op |-> rop, res |-> rres])
        ELSE selLog[x]]

\* Sender::send(msg) on channel i by e, at a moment it does not block.
CompleteSend(e, i, m, viaSelect) ==
    /\ SendReady(e, i)
    /\ IF IsZero(i)
       THEN \E r \in WaitingRecv(i) \ {e} :
               /\ recvLog' = [recvLog EXCEPT ![r] = Append(@, m)]
               /\ pc' = [pc EXCEPT ![e] = "idle", ![r] = "idle"]
               /\ arg' = [arg EXCEPT ![e] = NoMsg, ![r] = NoMsg]
               /\ selOps' = [selOps EXCEPT ![e] = {}, ![r] = {}]
               /\ selLog' = Logged(e, viaSelect, "send", m, r, "recv", m)
               /\ UNCHANGED buf
       ELSE /\ buf' = [buf EXCEPT ![i] = Push(@, m)]
            /\ pc' = [pc EXCEPT ![e] = "idle"]
            /\ arg' = [arg EXCEPT ![e] = NoMsg]
            /\ selOps' = [selOps EXCEPT ![e] = {}]
            /\ selLog' = Logged(e, viaSelect, "send", m, e, "send", m)
            /\ UNCHANGED recvLog
    /\ sentLog' = [sentLog EXCEPT ![e] = Append(@, m)]
    /\ UNCHANGED <<ctor, flavor, ep, senders, receivers, lost, leftover>>

\* Faulty variant of RecvOutcome: the end of the channel is reported before the
\* buffer is looked at.
RecvOutcome_closed_first(e, i) ==
    IF senders[i] = 0 THEN "closed"
    ELSE IF buf[i] # <<>> THEN "message"
    ELSE "rendezvous"

\* What a receive from channel i by e yields at a moment it does not block:
\* a buffered message first, else the message of a sender waiting at a
\* rendezvous, else the end of a channel whose senders are all gone.
RecvOutcome(e, i) ==
    IF buf[i] # <<>> THEN "message"
    ELSE IF IsZero(i) /\ WaitingSend(i) \ {e} # {} THEN "rendezvous"
    ELSE "closed"

\* Receiver::recv() on channel i by e, at a moment it does not block.
CompleteRecv(e, i, viaSelect) ==
    /\ RecvReady(e, i)
    /\ IF RecvOutcome(e, i) = "message"
       THEN /\ recvLog' = [recvLog EXCEPT ![e] = Append(@, Pop(buf[i]).msg)]
            /\ buf' = [buf EXCEPT ![i] = Pop(@).rest]
            /\ pc' = [pc EXCEPT ![e] = "idle"]
            /\ arg' = [arg EXCEPT ![e] = NoMsg]
            /\ selOps' = [selOps EXCEPT ![e] = {}]
            /\ selLog' = Logged(e, viaSelect, "recv", Pop(buf[i]).msg, e, "recv", None)
            /\ UNCHANGED sentLog
       ELSE IF RecvOutcome(e, i) = "rendezvous"
       THEN \E s \in WaitingSend(i) \ {e} :
               /\ recvLog' = [recvLog EXCEPT ![e] = Append(@, arg[s])]
               /\ sentLog' = [sentLog EXCEPT ![s] = Append(@, arg[s])]
               /\ pc' = [pc EXCEPT ![e] = "idle", ![s] = "idle"]
               /\ arg' = [arg EXCEPT ![e] = NoMsg, ![s] = NoMsg]
               /\ selOps' = [selOps EXCEPT ![e] = {}, ![s] = {}]
               /\ selLog' = Logged(e, viaSelect, "recv", arg[s], s, "send", arg[s])
               /\ UNCHANGED buf
       ELSE /\ recvLog' = [recvLog EXCEPT ![e] = Append(@, None)]
            /\ pc' = [pc EXCEPT ![e] = "idle"]
            /\ arg' = [arg EXCEPT ![e] = NoMsg]
            /\ selOps' = [selOps EXCEPT ![e] = {}]
            /\ selLog' = Logged(e, viaSelect, "recv", None, e, "recv", None)
            /\ UNCHANGED <<buf, sentLog>>
    /\ UNCHANGED <<ctor, flavor, ep, senders, receivers, lost, leftover>>

\* The calling thread parks in call `call`.
Block(e, call, m, ops) ==
    /\ pc' = [pc EXCEPT ![e] = call]
    /\ arg' = [arg EXCEPT ![e] = m]
    /\ selOps' = [selOps EXCEPT ![e] = ops]
    /\ UNCHANGED <<ctor, flavor, ep, buf, senders, receivers, sentLog, recvLog,
                   selLog, lost, leftover>>

\* ---------------------------------------------------------------- actions
\* BiChannel::send: self.tx.send(msg); returns () once the message is handed
\* to the channel, and parks while the channel has no room.
send(e, m) ==
    /\ CanCall(e)
    /\ m.n = Len(sentLog[e]) + 1
    /\ IF SendReady(e, ep[e].tx)
       THEN /\ CompleteSend(e, ep[e].tx, m, FALSE)
            /\ UNCHANGED blockedLog
       ELSE /\ Block(e, "send", m, {})
            /\ blockedLog' = [blockedLog EXCEPT ![e] = @ \cup {m.n}]

\* A parked send resumes once its channel has room.
send_wake(e) ==
    /\ pc[e] = "send"
    /\ CompleteSend(e, ep[e].tx, arg[e], FALSE)
    /\ UNCHANGED blockedLog

\* BiChannel::recv: self.rx.recv(); parks while the channel is empty and open.
recv(e) ==
    /\ CanCall(e)
    /\ IF RecvReady(e, ep[e].rx)
       THEN CompleteRecv(e, ep[e].rx, FALSE)
       ELSE Block(e, "recv", NoMsg, {})
    /\ UNCHANGED blockedLog

\* A parked recv resumes once a message arrived or the channel closed.
recv_wake(e) ==
    /\ pc[e] = "recv"
    /\ CompleteRecv(e, ep[e].rx, FALSE)
    /\ UNCHANGED blockedLog

\* The operands of a select of e that are ready.
ReadyOps(e, ops) ==
    {op \in ops : IF op = "recv" THEN RecvReady(e, as_recv_argument(e))
                                 ELSE SendReady(e, as_send_argument(e))}

CompleteOp(e, op, m) ==
    IF op = "recv"
    THEN CompleteRecv(e, as_recv_argument(e), TRUE)
    ELSE CompleteSend(e, as_send_argument(e), m, TRUE)

SelectOps == (SUBSET {"recv", "send"}) \ {{}}

\* select! { recv(e, _) => .., send(e, m) => .. } with the operands ops.
select(e, ops, m) ==
    /\ CanCall(e)
    /\ IF "send" \in ops
       THEN m.n = Len(sentLog[e]) + 1
       ELSE m = NoMsg
    /\ IF ReadyOps(e, ops) # {}
       THEN \E op \in ReadyOps(e, ops) : CompleteOp(e, op, m)
       ELSE Block(e, "select", m, ops)
    /\ UNCHANGED blockedLog

\* A parked select resumes through an operand that became ready.
select_wake(e) ==
    /\ pc[e] = "select"
    /\ \E op \in ReadyOps(e, selOps[e]) : CompleteOp(e, op, arg[e])
    /\ UNCHANGED blockedLog

\* Channel i after one Sender and/or Receiver handle of it was dropped: it is
\* freed, with what it still holds, once no handle is left.
Freed(i, s, r) == s[i] = 0 /\ r[i] = 0

\* Dropping the BiChannel drops its rx and its tx.
drop(e) ==
    /\ pc[e] = "idle"
    /\ LET s == [i \in Chans |-> IF i = ep[e].tx THEN senders[i] - 1 ELSE senders[i]]
           r == [i \in Chans |-> IF i = ep[e].rx THEN receivers[i] - 1 ELSE receivers[i]]
       IN /\ senders' = s
          /\ receivers' = r
          /\ buf' = [i \in Chans |-> IF Freed(i, s, r) THEN <<>> ELSE buf[i]]
          /\ lost' = lost \cup
                 UNION {{buf[i][k] : k \in 1..Len(buf[i])} :
                            i \in {j \in Chans : Freed(j, s, r)}}
    /\ leftover' = [leftover EXCEPT ![e] = buf[ep[e].tx]]
    /\ pc' = [pc EXCEPT ![e] = "dropped"]
    /\ UNCHANGED <<ctor, flavor, ep, arg, selOps, sentLog, recvLog, selLog, blockedLog>>

\* What a step that is no timer step does to the timers: the timer of a select
\* lives as long as the select is parked.
Untimed ==
    /\ timer' = [x \in Sides |-> IF pc'[x] = "select" THEN timer[x] ELSE "none"]
    /\ budget' = budget

Next ==
    \/ \E e \in Sides : \E m \in Msg(e) : send(e, m) /\ Untimed
    \/ \E e \in Sides : send_wake(e) /\ Untimed
    \/ \E e \in Sides : recv(e) /\ Untimed
    \/ \E e \in Sides : recv_wake(e) /\ Untimed
    \/ \E e \in Sides : \E ops \in SelectOps : \E m \in Msg(e) \cup {NoMsg} :
           select(e, ops, m) /\ Untimed
    \/ \E e \in Sides : select_wake(e) /\ Untimed
    \/ \E e \in Sides : drop(e) /\ Untimed

Spec == Init /\ [][Next]_vars

\* ------------------------------------------------ under a fair scheduler
InitF == Constructed(Calls, FairCalls)

\* A thread whose blocked call can resume is eventually run.
FairF ==
    \A e \in Sides :
        /\ WF_vars(send_wake(e) /\ Untimed)
        /\ WF_vars(recv_wake(e) /\ Untimed)
        /\ WF_vars(select_wake(e) /\ Untimed)

SpecF == InitF /\ [][Next]_vars /\ FairF

\* ------------------------------------------------- the crate-level example
\* for i in 0..10: the number of rounds of the left side.
Rounds == 10

\* Faulty variant of reply: the answer is negated.
reply_negated(val) == val % 2 # 0

\* What the right side answers to the request val: val % 2 == 0.
reply(val) == val % 2 = 0

\* let (left, right) = unbounded::<bool, i32>(); the left thread makes 2 calls
\* a round, the right thread as many and one last recv.
InitEx == Constructed({[fn |-> "unbounded", cap |-> 0]}, 2 * Rounds + 1)

\* The round the left side is in (the loop variable i), from 0.
Round == Len(recvLog["left"])

\* left.send(i)
ex_left_send ==
    /\ Round < Rounds
    /\ Len(sentLog["left"]) = Round
    /\ send("left", [val |-> Round, n |-> Round + 1])
    /\ Untimed

\* left.recv().unwrap()
ex_left_recv ==
    /\ Len(sentLog["left"]) = Round + 1
    /\ \/ recv("left")
       \/ recv_wake("left")
    /\ Untimed

\* The loop is over and main returns: left goes out of scope.
ex_left_exit ==
    /\ Round = Rounds
    /\ drop("left")
    /\ Untimed

\* let val = right.recv().unwrap();
ex_right_recv ==
    /\ Len(recvLog["right"]) = Len(sentLog["right"])
    /\ \/ recv("right")
       \/ recv_wake("right")
    /\ Untimed

\* right.send(val % 2 == 0);
ex_right_send ==
    /\ Len(recvLog["right"]) = Len(sentLog["right"]) + 1
    /\ Last(recvLog["right"]).n # 0
    /\ send("right", [val |-> reply(Last(recvLog["right"]).val),
                      n |-> Len(sentLog["right"]) + 1])
    /\ Untimed

\* unwrap() of the None that recv returns once left is gone panics, and the
\* unwinding thread drops right.
ex_right_panic ==
    /\ Len(recvLog["right"]) = Len(sentLog["right"]) + 1
    /\ Last(recvLog["right"]).n = 0
    /\ drop("right")
    /\ Untimed

NextEx ==
    \/ ex_left_send
    \/ ex_left_recv
    \/ ex_left_exit
    \/ ex_right_recv
    \/ ex_right_send
    \/ ex_right_panic

\* Both threads keep running: a thread that can take its next step takes it.
FairEx ==
    /\ WF_vars(ex_left_send \/ ex_left_recv \/ ex_left_exit)
    /\ WF_vars(ex_right_recv \/ ex_right_send \/ ex_right_panic)

SpecEx == InitEx /\ [][NextEx]_vars /\ FairEx

\* ------------------------------------------- selects with a timer operand
\* select! { recv(e, _) => .., send(e, m) => .., recv(channel::after(timeout)) => .. }
\* with the endpoint operands ops: as select, and a select that parks arms its timer.
select_after(e, ops, m) ==
    /\ select(e, ops, m)
    /\ timer' = [x \in Sides |->
                   IF pc'[x] # "select" THEN "none"
                   ELSE IF x = e THEN "armed" ELSE timer[x]]
    /\ budget' = budget

\* The deadline of a parked select passes before any of its endpoint operands
\* became ready (an operand that becomes ready first has claimed the select):
\* the select returns through the timer branch.
select_timeout(e) ==
    /\ pc[e] = "select"
    /\ timer[e] = "armed"
    /\ ReadyOps(e, selOps[e]) = {}
    /\ selLog' = [selLog EXCEPT ![e] = Append(@, [op |-> "timeout", res |-> NoMsg])]
    /\ pc' = [pc EXCEPT ![e] = "idle"]
    /\ arg' = [arg EXCEPT ![e] = NoMsg]
    /\ selOps' = [selOps EXCEPT ![e] = {}]
    /\ timer' = [timer EXCEPT ![e] = "none"]
    /\ UNCHANGED <<ctor, flavor, ep, buf, senders, receivers, sentLog, recvLog,
                   blockedLog, lost, leftover, budget>>

InitT == Constructed(Calls, TimedCalls)

NextT ==
    \/ \E e \in Sides : \E m \in Msg(e) : send(e, m) /\ Untimed
    \/ \E e \in Sides : send_wake(e) /\ Untimed
    \/ \E e \in Sides : recv(e) /\ Untimed
    \/ \E e \in Sides : recv_wake(e) /\ Untimed
    \/ \E e \in Sides : \E ops \in SelectOps : \E m \in Msg(e) \cup {NoMsg} :
           select_after(e, ops, m)
    \/ \E e \in Sides : select_wake(e) /\ Untimed
    \/ \E e \in Sides : select_timeout(e)
    \/ \E e \in Sides : drop(e) /\ Untimed

\* A select woken by an operand is scheduled, and the clock reaches the deadline.
FairT ==
    \A e \in Sides :
        /\ WF_vars(select_wake(e) /\ Untimed)
        /\ WF_vars(select_timeout(e))

SpecT == InitT /\ [][NextT]_vars /\ FairT

\* ------------------------------------------------------------ vocabulary
\* The channel carrying the direction out of e: left sends on (tx1, rx1),
\* right on (tx2, rx2).
Dir(e) == IF e = "left" THEN 1 ELSE 2

IsSome(x) == x # None

\* The messages among the results of recv calls.
Somes(log) == SelectSeq(log, IsSome)

Range(q) == {q[k] : k \in 1..Len(q)}

Count(q, m) == Cardinality({k \in 1..Len(q) : q[k] = m})

BothAlive == \A e \in Sides : pc[e] # "dropped"

\* The message of a send call of e that has not returned yet.
Held(e) == IF pc[e] = "send" THEN {arg[e]} ELSE {}

\* ------------------------------------------------------------------ C1
\* C1: pairing identity. Every message a recv of one endpoint returned was
\* passed to send on the other endpoint, an endpoint never receives its own
\* message, no message is returned twice, and while neither endpoint is
\* dropped every message whose send returned is either received by the peer
\* (once) or still queued (once), never both and never neither.
PairingIdentity ==
    \A e \in Sides :
        LET p == Peer(e)
            got == Somes(recvLog[p])
        IN /\ Range(got) \subseteq Range(sentLog[e])
           /\ Range(Somes(recvLog[e])) \cap Range(sentLog[e]) = {}
           /\ \A m \in Range(got) : Count(got, m) = 1
           /\ BothAlive =>
                \A m \in Range(sentLog[e]) :
                    Count(got, m) + Count(buf[1], m) + Count(buf[2], m) = 1

\* Both endpoints have received a message of the other.
PairingWitness ==
    \A e \in Sides :
        /\ Somes(recvLog[e]) # <<>>
        /\ Range(Somes(recvLog[e])) \subseteq Range(sentLog[Peer(e)])

\* ------------------------------------------------------------------ C2
\* C2: FIFO per direction. What the peer's recv calls have returned so far is
\* always the first part, in order, of what the endpoint's sends handed over.
FifoPerDirection ==
    \A e \in Sides :
        LET got == Somes(recvLog[Peer(e)])
        IN /\ Len(got) <= Len(sentLog[e])
           /\ got = SubSeq(sentLog[e], 1, Len(got))

\* Two messages went one way in order while the other direction had traffic too.
FifoWitness ==
    \E e \in Sides :
        /\ Len(Somes(recvLog[Peer(e)])) >= 2
        /\ Len(sentLog[Peer(e)]) >= 1
        /\ Len(buf[Dir(e)]) = 0

\* ------------------------------------------------------------------ C3
\* C3: bounded backpressure. On a pair made by bounded(N), N >= 1, each
\* direction queues at most N messages, the first N sends of an endpoint never
\* wait, and the sends of an endpoint that have returned exceed the messages
\* its peer has received by at most N; this holds for both directions alike.
BoundedBackpressure ==
    (ctor.fn = "bounded" /\ ctor.cap >= 1) =>
        \A e \in Sides :
            /\ Len(buf[Dir(e)]) <= ctor.cap
            /\ \A n \in blockedLog[e] : n > ctor.cap
            /\ Len(sentLog[e]) <= ctor.cap + Len(Somes(recvLog[Peer(e)]))

\* On both directions the send after the N-th had to wait and has returned
\* after a recv of the peer.
BackpressureWitness ==
    /\ ctor.fn = "bounded" /\ ctor.cap >= 1
    /\ \A e \in Sides :
        /\ ctor.cap + 1 \in blockedLog[e]
        /\ Len(sentLog[e]) = ctor.cap + 1

\* ------------------------------------------------------------------ C4
\* No endpoint is dropped in the step.
NoDropStep == \A x \in Sides : pc'[x] = "dropped" => pc[x] = "dropped"

\* C4: direction independence. A step in which no send of e and no recv of
\* its peer completes, and no endpoint is dropped, leaves the direction out of
\* e untouched: its buffer, its capacity and its handles. Dropping e leaves the
\* opposite direction open, with its buffer and capacity, while the peer lives.
\* A send parks only when its own direction is bounded and full, whatever the
\* state of the opposite direction.
DirectionIndependence ==
    [][\A e \in Sides :
          LET d == Dir(e)
              p == Peer(e)
          IN /\ (sentLog'[e] = sentLog[e] /\ recvLog'[p] = recvLog[p] /\ NoDropStep)
                   => /\ buf'[d] = buf[d]
                      /\ flavor'[d] = flavor[d]
                      /\ senders'[d] = senders[d]
                      /\ receivers'[d] = receivers[d]
             /\ (pc[e] # "dropped" /\ pc'[e] = "dropped" /\ pc[p] # "dropped")
                   => /\ buf'[Dir(p)] = buf[Dir(p)]
                      /\ flavor'[Dir(p)] = flavor[Dir(p)]
                      /\ senders'[Dir(p)] = senders[Dir(p)]
             /\ (pc[e] = "idle" /\ pc'[e] = "send")
                   => /\ flavor[d].kind = "bounded"
                      /\ Len(buf[d]) = flavor[d].cap
      ]_vars

\* On a capacity-1 pair both endpoints have sent, neither send waited and
\* nothing was received yet: both directions are full at once.
SimultaneousHandover ==
    /\ ctor = [fn |-> "bounded", cap |-> 1]
    /\ \A e \in Sides :
        /\ Len(sentLog[e]) = 1
        /\ buf[Dir(e)] = sentLog[e]
        /\ blockedLog[e] = {}
        /\ recvLog[e] = <<>>

\* ------------------------------------------------------------------ C5
\* e is engaged in a receive: inside recv, or inside a select with a recv operand.
Receiving(e) == pc[e] = "recv" \/ (pc[e] = "select" /\ "recv" \in selOps[e])

\* e is engaged in a send: inside send, or inside a select with a send operand.
Sending(e) == pc[e] = "send" \/ (pc[e] = "select" /\ "send" \in selOps[e])

\* C5: rendezvous. On a pair made by bounded(0) no direction ever holds a
\* message; a send of e completes only in a step in which the peer's receive
\* completes with that very message, one of the two calls having been in
\* progress already and the other arriving in that step; and a recv that
\* parked while the sender lives leaves recv only by returning the message of
\* a send that completes in the same step.
Rendezvous ==
    [][ctor = [fn |-> "bounded", cap |-> 0] =>
          /\ \A i \in Chans : buf[i] = <<>> /\ buf'[i] = <<>>
          /\ \A e \in Sides :
                LET p == Peer(e)
                IN /\ sentLog'[e] # sentLog[e]
                        => /\ Len(sentLog'[e]) = Len(sentLog[e]) + 1
                           /\ recvLog'[p] =
                                Append(recvLog[p], sentLog'[e][Len(sentLog'[e])])
                           /\ Receiving(p) \/ Sending(e)
                           /\ pc'[e] = "idle" /\ pc'[p] = "idle"
                   /\ (pc[p] = "recv" /\ pc'[p] # "recv" /\ pc[e] # "dropped")
                        => /\ Len(sentLog'[e]) = Len(sentLog[e]) + 1
                           /\ recvLog'[p] =
                                Append(recvLog[p], sentLog'[e][Len(sentLog'[e])])
      ]_vars

\* On a rendezvous pair a recv was waiting when the send arrived: the send
\* returned without waiting and the recv returned its message.
RendezvousWitness ==
    /\ ctor = [fn |-> "bounded", cap |-> 0]
    /\ \A e \in Sides : selLog[e] = <<>>
    /\ \E e \in Sides :
        /\ sentLog[e] # <<>>
        /\ blockedLog[e] = {}
        /\ recvLog[Peer(e)] = sentLog[e]

\* ------------------------------------------------------------------ C6
\* C6: disconnected send. Once the peer is dropped, a send call of the
\* surviving endpoint neither returns as delivered (sentLog does not grow, the
\* channel does not take the message) nor parks: it comes back at once with a
\* failure holding the message.
DisconnectedSendFails ==
    [][\A e \in Sides :
          (pc[Peer(e)] = "dropped" /\ pc[e] = "idle" /\ selLog'[e] = selLog[e])
              => /\ sentLog'[e] = sentLog[e]
                 /\ buf'[Dir(e)] = buf[Dir(e)]
                 /\ pc'[e] # "send"
      ]_vars

\* ------------------------------------------------------------------ C7
\* C7: drain before None. A recv returns None only after the peer was dropped
\* and only once every message the peer sent has been returned, in order, so
\* that what was still queued at the drop comes out before the first None and
\* nothing but None follows it; while the peer is dropped the survivor's recv
\* never waits: a parked recv can resume and a new recv returns at once.
DrainBeforeNone ==
    \A e \in Sides :
        LET p == Peer(e)
            log == recvLog[e]
        IN /\ None \in Range(log)
                => /\ pc[p] = "dropped"
                   /\ Somes(log) = sentLog[p]
                   /\ \A j, k \in 1..Len(log) :
                          (j < k /\ log[j] = None) => log[k] = None
           /\ (pc[p] = "dropped" /\ pc[e] # "dropped")
                => /\ Somes(log) \o buf[Dir(p)] = sentLog[p]
                   /\ Len(leftover[p]) >= Len(buf[Dir(p)])
                   /\ buf[Dir(p)] =
                        SubSeq(leftover[p],
                               Len(leftover[p]) - Len(buf[Dir(p)]) + 1,
                               Len(leftover[p]))
                   /\ pc[e] = "recv" => ENABLED recv_wake(e)
                   /\ CanCall(e) => ENABLED (recv(e) /\ pc'[e] = "idle")

\* The peer was dropped with a message still queued; the survivor's recv
\* calls returned what was queued and then None.
DrainWitness ==
    \E e \in Sides :
        /\ pc[Peer(e)] = "dropped"
        /\ leftover[Peer(e)] # <<>>
        /\ recvLog[e] = sentLog[Peer(e)] \o <<None>>

\* ------------------------------------------------------------------ C8

\* C8: recv outcome discipline. Whenever a recv of e returns, it returns one
\* value: None only if the peer is dropped and the inbound buffer is empty;
\* the head of the inbound buffer whenever that buffer is not empty; and a
\* message that is not from the buffer only if it is the message of a peer
\* send completing in that step. A recv parks only on an empty inbound channel
\* of a living peer, and stays parked through every step in which the living
\* peer completes no send.
RecvDiscipline ==
    [][\A e \in Sides :
          LET p == Peer(e)
              in == Dir(p)
          IN /\ recvLog'[e] # recvLog[e]
                  => /\ Len(recvLog'[e]) = Len(recvLog[e]) + 1
                     /\ SubSeq(recvLog'[e], 1, Len(recvLog[e])) = recvLog[e]
                     /\ Last(recvLog'[e]) = None
                          => /\ pc[p] = "dropped"
                             /\ senders[in] = 0
                             /\ buf[in] = <<>>
                     /\ buf[in] # <<>>
                          => /\ Last(recvLog'[e]) = Head(buf[in])
                             /\ buf'[in] = Tail(buf[in])
                     /\ (Last(recvLog'[e]) # None /\ buf[in] = <<>>)
                          => sentLog'[p] = Append(sentLog[p], Last(recvLog'[e]))
             /\ (pc[e] = "recv" /\ buf[in] = <<>> /\ pc'[p] # "dropped"
                    /\ sentLog'[p] = sentLog[p])
                  => /\ pc'[e] = "recv"
                     /\ recvLog'[e] = recvLog[e]
             /\ (pc[e] = "idle" /\ pc'[e] = "recv")
                  => /\ buf[in] = <<>>
                     /\ pc[p] # "dropped"
      ]_vars

\* After receiving a message, e is parked in recv on an empty inbound channel
\* whose sender is alive.
RecvWaitsWitness ==
    \E e \in Sides :
        /\ pc[e] = "recv"
        /\ buf[Dir(Peer(e))] = <<>>
        /\ pc[Peer(e)] # "dropped"
        /\ Somes(recvLog[e]) # <<>>
        /\ None \notin Range(recvLog[e])

\* ------------------------------------------------------------------ C9
\* The number of the situations in S that hold.
HowMany(S) == Cardinality({k \in DOMAIN S : S[k]})

\* The messages passed to a send of e: those whose send returned and the one
\* a parked send still holds.
Offered(e) == Range(sentLog[e]) \cup Held(e)

RecvWouldNotBlock(e) == ENABLED (recv(e) /\ pc'[e] = "idle")

\* A send(m) called by e now would return without waiting.
SendWouldNotBlock(e) == ENABLED (\E m \in Msg(e) : send(e, m) /\ pc'[e] = "idle")

\* A select of e with the single operand recv(e) would go through it at once.
RecvOperandReady(e) == ENABLED (select(e, {"recv"}, NoMsg) /\ pc'[e] = "idle")

\* A select of e with the single operand send(e, m) would go through it at once.
SendOperandReady(e) ==
    ENABLED (\E m \in Msg(e) : select(e, {"send"}, m) /\ pc'[e] = "idle")

\* C10: selection operands. Where e can call either, its recv operand is ready
\* exactly when its recv() would not block and its send operand exactly when
\* its send(msg) would not block. A message sent through a select of e is a
\* message of e's outbound direction only: received by the peer, queued toward
\* the peer or destroyed with that channel, never returned to e nor queued
\* toward e. What a select of e received is None or a message the peer sent.
SelectionOperands ==
    \A e \in Sides :
        LET p == Peer(e)
        IN /\ CanCall(e) => (RecvOperandReady(e) <=> RecvWouldNotBlock(e))
           /\ CanCall(e) => (SendOperandReady(e) <=> SendWouldNotBlock(e))
           /\ \A k \in 1..Len(selLog[e]) :
                LET x == selLog[e][k]
                IN /\ x.op = "send"
                        => /\ x.res \in Range(sentLog[e])
                           /\ HowMany(<<x.res \in Range(recvLog[p]),
                                        x.res \in Range(buf[Dir(e)]),
                                        x.res \in lost>>) = 1
                           /\ x.res \notin Range(recvLog[e])
                           /\ x.res \notin Range(buf[Dir(p)])
                   /\ x.op = "recv"
                        => /\ x.res \in Range(recvLog[e])
                           /\ x.res = None \/ x.res \in Range(sentLog[p])

\* A message sent through a select of one endpoint was received by a plain
\* recv of the peer, and the endpoint's peer sent a message that came out of a
\* select.
SelectionWitness ==
    \E e \in Sides :
        /\ selLog[e] # <<>>
        /\ selLog[e][1].op = "send"
        /\ selLog[e][1].res \in Range(recvLog[Peer(e)])
        /\ selLog[Peer(e)] # <<>>
        /\ selLog[Peer(e)][1].op = "recv"
        /\ selLog[Peer(e)][1].res \in Range(sentLog[e])

\* ----------------------------------------------------------------- C11
\* The direction into e is ready: a message is queued toward e, the peer is
\* waiting to hand one over at a rendezvous, or the peer is dropped.
InboundReady(e) ==
    \/ buf[Dir(Peer(e))] # <<>>
    \/ ctor = [fn |-> "bounded", cap |-> 0] /\ Sending(Peer(e))
    \/ pc[Peer(e)] = "dropped"

\* The direction out of e is ready: it has room, or at a rendezvous the peer
\* is waiting to receive.
OutboundReady(e) ==
    IF ctor.fn = "unbounded" THEN TRUE
    ELSE IF ctor.cap = 0 THEN Receiving(Peer(e))
    ELSE Len(buf[Dir(e)]) < ctor.cap

\* A direction that an endpoint operand of the parked select of e waits for is ready.
OperandDirectionReady(e) ==
    \/ "recv" \in selOps[e] /\ InboundReady(e)
    \/ "send" \in selOps[e] /\ OutboundReady(e)

\* The select of e is parked with its timer running.
TimedWait(e) == pc[e] = "select" /\ timer[e] = "armed"

\* The select call of e returns through its timer branch in this step.
TimesOut(e) ==
    /\ Len(selLog'[e]) = Len(selLog[e]) + 1
    /\ Last(selLog'[e]).op = "timeout"

\* C11: selection versus timeout. A select with endpoint operands and a timer
\* returns through the timer branch only from a wait in which no direction its
\* endpoint operands wait for is ready; a select that finds or gets a ready
\* direction before the deadline returns through that endpoint operand, with
\* the message exchanged (at a rendezvous: in the very step of the peer's
\* matching send or recv); and a select with a timer never waits forever.
SelectionVersusTimeout ==
    /\ [][\A e \in Sides :
            /\ TimesOut(e) => (TimedWait(e) /\ ~OperandDirectionReady(e))
            /\ (TimedWait(e) /\ OperandDirectionReady(e) /\ pc'[e] # "select")
                  => /\ Len(selLog'[e]) = Len(selLog[e]) + 1
                     /\ Last(selLog'[e]).op \in selOps[e]
                     /\ Last(selLog'[e]).op = "recv" =>
                            recvLog'[e] = Append(recvLog[e], Last(selLog'[e]).res)
                     /\ Last(selLog'[e]).op = "send" =>
                            sentLog'[e] = Append(sentLog[e], Last(selLog'[e]).res)
       ]_vars
    /\ \A e \in Sides : TimedWait(e) ~> (pc[e] # "select")

\* On a rendezvous pair one select with a timer returned the message of the
\* peer's send, which found it waiting, and a later select of the same thread,
\* with no peer call to match it, returned through its timer.
TimeoutWitness ==
    /\ ctor = [fn |-> "bounded", cap |-> 0]
    /\ \E e \in Sides :
        /\ Len(selLog[e]) = 2
        /\ selLog[e][1].op = "recv"
        /\ selLog[e][1].res \in Range(sentLog[Peer(e)])
        /\ blockedLog[Peer(e)] = {}
        /\ selLog[e][2].op = "timeout"

\* ----------------------------------------------------------------- C12
\* C12: selection over a closed direction. Once the peer is dropped, a select
\* called by the surviving endpoint returns at once and never parks; through
\* its recv operand on an empty inbound buffer it yields None, and through its
\* send operand it yields the send failure: the message is not delivered
\* (sentLog does not grow, the channel does not take it).
ClosedDirectionReady ==
    [][\A e \in Sides :
          (pc[Peer(e)] = "dropped" /\ pc[e] = "idle")
              => /\ pc'[e] # "select"
                 /\ selLog'[e] # selLog[e]
                      => /\ (Last(selLog'[e]).op = "recv" /\ buf[Dir(Peer(e))] = <<>>)
                               => Last(selLog'[e]).res = None
                         /\ Last(selLog'[e]).op = "send"
                               => /\ sentLog'[e] = sentLog[e]
                                  /\ buf'[Dir(e)] = buf[Dir(e)]
      ]_vars

\* ----------------------------------------------------------------- C13
\* A send of e completes in this step, handing over m.
SendCompletes(e, m) == sentLog'[e] = Append(sentLog[e], m)

\* A receive of e completes in this step, returning m.
RecvCompletes(e, m) == recvLog'[e] = Append(recvLog[e], m)

\* C13: selection atomicity. A select call of e that returns has performed
\* exactly one operation, the one of the branch it returned through, and that
\* branch was offered and ready (its direction was ready before the step, or
\* the peer's matching call arrived in the step); the channel and the log of
\* the other branch are as before. A select that waits performs nothing.
SelectionAtomicity ==
    [][\A e \in Sides :
          LET p == Peer(e)
              x == Last(selLog'[e])
          IN /\ selLog'[e] # selLog[e]
                  => /\ Len(selLog'[e]) = Len(selLog[e]) + 1
                     /\ x.op \in {"recv", "send"}
                     /\ pc[e] = "select" => x.op \in selOps[e]
                     /\ Len(sentLog'[e]) + Len(recvLog'[e])
                          = Len(sentLog[e]) + Len(recvLog[e]) + 1
                     /\ x.op = "recv"
                          => /\ RecvCompletes(e, x.res)
                             /\ sentLog'[e] = sentLog[e]
                             /\ buf'[Dir(e)] = buf[Dir(e)]
                             /\ InboundReady(e) \/ SendCompletes(p, x.res)
                     /\ x.op = "send"
                          => /\ SendCompletes(e, x.res)
                             /\ recvLog'[e] = recvLog[e]
                             /\ buf'[Dir(p)] = buf[Dir(p)]
                             /\ OutboundReady(e) \/ RecvCompletes(p, x.res)
             /\ pc'[e] = "select"
                  => /\ sentLog'[e] = sentLog[e]
                     /\ recvLog'[e] = recvLog[e]
                     /\ selLog'[e] = selLog[e]
      ]_vars

\* One thread sent a message through a select and received one through a
\* later select, and the message it sent is still queued, untouched by the
\* select that received.
AtomicityWitness ==
    \E e \in Sides :
        /\ Len(selLog[e]) = 2
        /\ selLog[e][1].op = "send"
        /\ selLog[e][2].op = "recv"
        /\ selLog[e][2].res \in Range(sentLog[Peer(e)])
        /\ buf[Dir(e)] = <<selLog[e][1].res>>

\* ----------------------------------------------------------------- C14
\* The payloads of the messages in q.
Payloads(q) == {q[k].val : k \in 1..Len(q)}

\* C14: asymmetric typing. With left a BiChannel<T, U> and right a
\* BiChannel<U, T>, the channel from left to right holds only U values and the
\* channel from right to left only T values; what left.recv returned are T
\* values and what right.recv returned are U values, each exactly a value the
\* peer passed to send.
AsymmetricTyping ==
    /\ Payloads(buf[Dir("left")]) \subseteq U
    /\ Payloads(buf[Dir("right")]) \subseteq T
    /\ \A e \in Sides :
        /\ Payloads(Somes(recvLog[e])) \subseteq RecvType(e)
        /\ Payloads(sentLog[e]) \subseteq SendType(e)
        /\ Range(Somes(recvLog[e])) \subseteq Range(sentLog[Peer(e)])

\* On an unbounded pair left sent a U value that right received, and right
\* sent a T value that left received.
AsymmetricWitness ==
    /\ ctor.fn = "unbounded"
    /\ Payloads(recvLog["right"]) = U /\ recvLog["right"] = sentLog["left"]
    /\ Payloads(recvLog["left"]) = T /\ recvLog["left"] = sentLog["right"]

\* ----------------------------------------------------------------- C15
\* C15: no backpressure on unbounded pairs. On a pair made by unbounded() no
\* send ever waits: no thread is parked in send, no send has ever parked, and
\* while the peer is alive a send called now returns at once, whatever is
\* queued in either direction; and every message queued toward a live peer
\* is receivable: a recv the peer calls returns the oldest of them at once.
UnboundedNeverBlocks ==
    ctor.fn = "unbounded" =>
        \A e \in Sides :
            LET p == Peer(e)
            IN /\ pc[e] # "send"
               /\ blockedLog[e] = {}
               /\ (pc[p] # "dropped" /\ CanCall(e)) => SendWouldNotBlock(e)
               /\ (buf[Dir(e)] # <<>> /\ CanCall(p))
                    => ENABLED (recv(p) /\ RecvCompletes(p, Head(buf[Dir(e)])))

\* On an unbounded pair two messages are queued in each direction, nothing
\* was received, and both threads can still call.
UnboundedWitness ==
    /\ ctor.fn = "unbounded"
    /\ \A e \in Sides :
        /\ Len(buf[Dir(e)]) = 2
        /\ buf[Dir(e)] = sentLog[e]
        /\ CanCall(e)

\* ----------------------------------------------------------------- C16
\* Both threads are blocked in send on a bounded pair whose two directions
\* are full (at capacity 0: with no receiver waiting).
BothSending ==
    /\ ctor.fn = "bounded"
    /\ \A e \in Sides : pc[e] = "send" /\ Len(buf[Dir(e)]) = ctor.cap

\* C16: unresolved deadlock. Threads are blocked in send only on a bounded
\* pair, and when both are, on full directions, no thread is receiving and the
\* pair can take no step at all: neither send can resume, nothing is received
\* and nothing is dropped.
DeadlockUnresolved ==
    /\ (\E e \in Sides : pc[e] = "send") => ctor.fn = "bounded"
    /\ BothSending =>
        /\ \A e \in Sides : ~Receiving(e) /\ ~ENABLED send_wake(e)
        /\ ~ENABLED Next

\* On a pair of capacity 1 or more both directions are full and both threads
\* are blocked in the send after.
DeadlockWitness ==
    /\ BothSending
    /\ ctor.fn = "bounded" /\ ctor.cap >= 1
    /\ \A e \in Sides : Len(buf[Dir(e)]) = ctor.cap /\ Len(sentLog[e]) = ctor.cap

\* ----------------------------------------------------------------- C17
\* C17: blocked calls are released. Under a fair scheduler a send blocked on
\* a direction that has got room (the peer received) completes, and a recv
\* blocked on a direction that has got a message or whose sender was dropped
\* returns. At capacity 0, where nothing is queued, the blocked call is
\* released in the very step the peer's matching call arrives: a blocked send
\* when the peer receives, a blocked recv when the peer sends.
BlockedEventuallyReleased ==
    /\ \A e \in Sides : (pc[e] = "send" /\ OutboundReady(e)) ~> (pc[e] # "send")
    /\ \A e \in Sides : (pc[e] = "recv" /\ InboundReady(e)) ~> (pc[e] # "recv")
    /\ [][\A e \in Sides :
            LET p == Peer(e)
            IN (ctor = [fn |-> "bounded", cap |-> 0] /\ pc[p] = "idle") =>
                /\ pc[e] = "send"
                      => /\ pc'[p] # "recv"
                         /\ recvLog'[p] # recvLog[p]
                              => /\ pc'[e] = "idle"
                                 /\ SendCompletes(e, arg[e])
                                 /\ RecvCompletes(p, arg[e])
                /\ pc[e] = "recv"
                      => /\ pc'[p] # "send"
                         /\ sentLog'[p] # sentLog[p]
                              => /\ pc'[e] = "idle"
                                 /\ RecvCompletes(e, Last(sentLog'[p]))
       ]_vars

\* On a pair of capacity 1 or more a send that had to wait has returned after
\* the peer received, and the peer, whose second recv had to wait, got the
\* message of that send.
ReleasedWitness ==
    /\ ctor.fn = "bounded" /\ ctor.cap >= 1
    /\ \E e \in Sides :
        /\ pc[e] = "idle"
        /\ blockedLog[e] = {ctor.cap + 1}
        /\ Len(sentLog[e]) = ctor.cap + 1
        /\ recvLog[Peer(e)] = sentLog[e]

\* ----------------------------------------------------------------- C18
\* The messages queued in either direction.
InFlight == Len(buf[1]) + Len(buf[2])

\* C18: the request/reply example. While the left side has rounds to go some
\* thread can take a step (no deadlock); the k-th value left received is a
\* message, whose payload is "i_k is even" for the k-th request i_k = k - 1
\* left sent; at most one message is in flight over both directions; and the
\* left side finishes all its rounds.
RequestReply ==
    /\ [](/\ Round < Rounds => ENABLED NextEx
          /\ \A k \in 1..Len(recvLog["left"]) :
                /\ recvLog["left"][k].n = k
                /\ sentLog["left"][k].val = k - 1
                /\ recvLog["left"][k].val = (sentLog["left"][k].val % 2 = 0)
          /\ InFlight <= 1
          /\ Round <= Rounds)
    /\ <>(Round = Rounds)

\* The left side has got the answers to all its requests, the last one saying
\* that 9 is odd, and main has returned.
RequestReplyWitness ==
    /\ ctor.fn = "unbounded"
    /\ Round = Rounds
    /\ Len(sentLog["left"]) = Rounds
    /\ recvLog["left"][Rounds].val = FALSE
    /\ recvLog["left"][Rounds - 1].val = TRUE
    /\ pc["left"] = "dropped"

====
